---- MODULE Spec2Model ----
(***************************************************************************)
(* The two Monte-Carlo pi estimators of                                    *)
(* notebooks/04-Parallel-Programming-with-Python.ipynb:                    *)
(*   - the thread estimator (threading.Thread + Lock, global `inside`),    *)
(*   - the multiprocessing estimator (mp.Pool.map, local `inside`).        *)
(* The sample budget (12e6 in the notebook) and the worker count are       *)
(* scaled down to small inputs; the random module is a small generator     *)
(* with an explicit state, so that who shares a generator is visible.      *)
(***************************************************************************)
EXTENDS Integers, Sequences, FiniteSets, TLC

VARIABLES
    cell,          \* which estimator cell runs: "thread" or "pool"
    totalSamples,  \* the sample budget (12e6 in the notebook)
    nt,            \* nt (thread cell) / processes (pool cell)
    samples,       \* samples (thread cell) / nsamples (pool cell)
    args,          \* args[i]: what task i is called with
    mpc,           \* position of the main program
    k,             \* index of the main program's start / join loop
    pc,            \* pc[i]: position of task i in calcInside
    it,            \* it[i]: loop variable i of calcInside in task i
    x,             \* x[i]: local x of task i
    tmp,           \* tmp[i]: value of `inside` loaded by `inside += 1`
    lock,          \* holder of `lock`, or Free
    inside,        \* the global `inside` of the thread cell
    linside,       \* linside[i]: the local `inside` of task i (pool cell)
    gen,           \* gen[p]: state of the random module of process p
    worker,        \* worker[i]: pool process that runs task i, or Free
    result,        \* result[i]: what task i returned through pool.map
    out,           \* the printed estimate, <<num, den>>, or NoValue
    hits,          \* hits[i]: samples task i found inside the circle
    seeded,        \* seeded[i]: the argument of task i's random.seed
    raised,        \* number of tasks that raised so far
    size,          \* MPI cells: size of MPI.COMM_WORLD
    eager,         \* MPI cells: a blocking send returns once buffered
    rpc,           \* rpc[r]: position of rank r in its cell
    data,          \* data[r]: the variable `data` of rank r
    numData,       \* numData[r]: the variable `numData` of rank r
    sendbuf,       \* sendbuf[r]: the variable `sendbuf` of rank r
    recvbuf,       \* recvbuf[r]: the variable `recvbuf` of rank r
    chan,          \* messages sent and not yet received, oldest first
    arrived,       \* ranks whose block the root of the gather placed, in order
    nsent,         \* nsent[r]: messages rank r has sent
    nrecv          \* nrecv[r]: messages rank r has received

\* the state of the MPI cells
mpivars == <<size, eager, rpc, data, numData, sendbuf, recvbuf, chan, arrived,
             nsent, nrecv>>

vars == <<cell, totalSamples, nt, samples, args, mpc, k, pc, it, x, tmp,
          lock, inside, linside, gen, worker, result, out, hits, seeded,
          raised, mpivars>>

----
\* Bounds of the model.
MaxRunTotal == 4      \* largest sample budget of a run
MaxRunWorkers == 2    \* largest worker count of a run
MaxPlanTotal == 12    \* largest sample budget the partition is computed for
MaxPlanWorkers == 5   \* largest worker count the partition is computed for
MaxRaise == 1         \* tasks that may raise in one run
MaxBelow == 1         \* how far below 0 the inputs of an unvalidated run go

Free == -1
NoValue == <<>>
Exc == <<"exception">>

Tasks == 0 .. (nt - 1)

----
\* The random module: a generator with state in 0 .. GenMod-1.
\* random.seed(a) sets the state from a; random.random() advances it and
\* returns state / GenMod, a value in [0, 1).
GenMod == 8
GenMul == 5
GenInc == 1

random_seed(a) == a % GenMod

random_next(s) == (GenMul * s + GenInc) % GenMod

\* (x*x)+(y*y) < 1 on coordinates scaled by GenMod
InCircle(xv, yv) == (xv * xv) + (yv * yv) < GenMod * GenMod

----
\* Task states of the estimation (calcInside run by a thread or a pool worker).
RunningPcs == {"seed", "x", "y", "acq", "load", "store", "rel", "ret"}

TaskState(i) ==
    IF pc[i] = "new" THEN "Pending"
    ELSE IF pc[i] \in RunningPcs THEN "Running"
    ELSE IF pc[i] = "done" THEN "Completed"
    ELSE "Failed"

\* The process whose random module task i uses: every thread of the thread
\* cell lives in the one interpreter process (0); a pool task runs in the
\* worker process that picked it up.
Proc(i) == IF cell = "thread" THEN 0 ELSE worker[i]

Abs(n) == IF n < 0 THEN 0 - n ELSE n

\* samples=int(12e6/nt)  /  nsamples = int(12e6/processes): the quotient cut
\* towards zero (n # 0; a zero n raises before int is called)
PerWorker(total, n) ==
    IF (total < 0) = (n < 0)
    THEN Abs(total) \div Abs(n)
    ELSE 0 - (Abs(total) \div Abs(n))

\* TaskArgs with every task given rank 0
TaskArgsRankZero(i, n) == [nsamples |-> n, rank |-> 0]

\* Thread(target=calcInside, args=(samples,i))  /  pool.map(calcInside, range(processes))
TaskArgs(i, n) == [nsamples |-> n, rank |-> i]

----
\* Exact rationals <<num, den>> for the printed values.
RatAdd(a, b) == <<(a[1] * b[2]) + (b[1] * a[2]), a[2] * b[2]>>

RatDivInt(a, n) == <<a[1], a[2] * n>>

RatEq(a, b) == a[1] * b[2] = b[1] * a[2]

RECURSIVE RatSum(_, _)
RatSum(seq, n) == IF n = 0 THEN <<0, 1>> ELSE RatAdd(RatSum(seq, n - 1), seq[n])

\* np_mean as a running average: every new element is averaged with the
\* average so far
RECURSIVE RunningAverage(_, _)
RunningAverage(seq, n) ==
    IF n = 0 THEN <<0, 1>>
    ELSE RatDivInt(RatAdd(RunningAverage(seq, n - 1), seq[n]), 2)

np_mean_running(seq) == RunningAverage(seq, Len(seq))

\* np.mean(result): the sum of the list, in list order, over its length
np_mean(seq) == RatDivInt(RatSum(seq, Len(seq)), Len(seq))

\* Ratio without the factor 4.0
RatioUnscaled(h, n) == <<h, n>>

\* (4.0*inside)/nsamples, the value calcInside returns in the pool cell
Ratio(h, n) == <<4 * h, n>>

\* ThreadEstimate divided by the samples of one thread only
ThreadEstimatePerThread(h, n, w) == <<4 * h, 1 * n>>

\* (4.0*inside)/(1.0*samples*nt), the value the thread cell prints
ThreadEstimate(h, n, w) == <<4 * h, 1 * n * w>>

----
\* No MPI cell runs: the state of the MPI cells while an estimator cell runs.
MpiIdle ==
    /\ size = 0
    /\ eager = FALSE
    /\ rpc = <<>>
    /\ data = <<>>
    /\ numData = <<>>
    /\ sendbuf = <<>>
    /\ recvbuf = <<>>
    /\ chan = <<>>
    /\ arrived = <<>>
    /\ nsent = <<>>
    /\ nrecv = <<>>

\* Initial states: the cell about to run, its inputs, nothing started.
InitFrom(lowest, maxTotal, maxWorkers) ==
    /\ cell \in {"thread", "pool"}
    /\ totalSamples \in lowest .. maxTotal
    /\ nt \in lowest .. maxWorkers
    /\ samples = 0
    /\ args = [i \in Tasks |-> TaskArgs(0, 0)]
    /\ mpc = "setup"
    /\ k = 0
    /\ pc = [i \in Tasks |-> "new"]
    /\ it = [i \in Tasks |-> 0]
    /\ x = [i \in Tasks |-> 0]
    /\ tmp = [i \in Tasks |-> 0]
    /\ lock = Free
    /\ inside = 0
    /\ linside = [i \in Tasks |-> 0]
    /\ \E g \in 0 .. (GenMod - 1) : gen = [p \in Tasks |-> g]
    /\ worker = [i \in Tasks |-> Free]
    /\ result = [i \in Tasks |-> NoValue]
    /\ out = NoValue
    /\ hits = [i \in Tasks |-> 0]
    /\ seeded = [i \in Tasks |-> Free]
    /\ raised = 0
    /\ MpiIdle

InitWith(maxTotal, maxWorkers) == InitFrom(1, maxTotal, maxWorkers)

Init == InitWith(MaxRunTotal, MaxRunWorkers)

\* The cells run with the budget and the worker count edited to any value,
\* also values below 1: nothing in the cells validates them.
InitAny == InitFrom(0 - MaxBelow, MaxRunTotal, MaxRunWorkers)

InitPlan == InitWith(MaxPlanTotal, MaxPlanWorkers)

----
\* Main program, both cells: nt / inside / samples / threads (thread cell),
\* processes / nsamples / mp.Pool / submission of the map (pool cell).
\* 12e6/nt with nt = 0 raises ZeroDivisionError; mp.Pool(processes) with
\* processes < 1 raises ValueError. Nothing else is checked.
Setup ==
    /\ mpc = "setup"
    /\ inside' = 0
    /\ IF nt = 0
       THEN /\ mpc' = "raised"
            /\ UNCHANGED <<samples, args>>
       ELSE /\ samples' = PerWorker(totalSamples, nt)
            /\ args' = [i \in Tasks |-> TaskArgs(i, samples')]
            /\ mpc' = IF cell = "thread" THEN "start"
                      ELSE IF nt < 1 THEN "raised" ELSE "map"
    /\ UNCHANGED <<mpivars, cell, totalSamples, nt, k, pc, it, x, tmp, lock, linside,
                   gen, worker, result, out, hits, seeded, raised>>

\* for t in threads: t.start()
Start ==
    /\ mpc = "start"
    /\ IF k < nt
       THEN /\ pc' = [pc EXCEPT ![k] = "seed"]
            /\ k' = k + 1
            /\ mpc' = mpc
       ELSE /\ mpc' = "join"
            /\ k' = 0
            /\ pc' = pc
    /\ UNCHANGED <<mpivars, cell, totalSamples, nt, samples, args, it, x, tmp, lock,
                   inside, linside, gen, worker, result, out, hits, seeded,
                   raised>>

\* Joinable with join returning at once, the thread ended or not
JoinableAtOnce(i) == TRUE

\* t.join() returns once thread t has ended, normally or by an exception
Joinable(i) == pc[i] \in {"done", "failed"}

\* for t in threads: t.join()
Join ==
    /\ mpc = "join"
    /\ IF k < nt
       THEN /\ Joinable(k)
            /\ k' = k + 1
            /\ mpc' = mpc
       ELSE /\ mpc' = "print"
            /\ k' = k
    /\ UNCHANGED <<mpivars, cell, totalSamples, nt, samples, args, pc, it, x, tmp, lock,
                   inside, linside, gen, worker, result, out, hits, seeded,
                   raised>>

\* print((4.0*inside)/(1.0*samples*nt)); a zero divisor raises ZeroDivisionError
PrintThread ==
    /\ cell = "thread"
    /\ mpc = "print"
    /\ IF samples * nt = 0
       THEN /\ mpc' = "raised"
            /\ out' = out
       ELSE /\ mpc' = "printed"
            /\ out' = ThreadEstimate(inside, samples, nt)
    /\ UNCHANGED <<mpivars, cell, totalSamples, nt, samples, args, k, pc, it, x, tmp,
                   lock, inside, linside, gen, worker, result, hits, seeded,
                   raised>>

----
\* calcInside, the part both cells share: random.seed(rank), then the loop
\* for i in range(nsamples) drawing x and y from the random module of the
\* process the task runs in.

\* where calcInside goes when the loop ends: the thread version returns, the
\* pool version goes on to its return statement
LoopExit == IF cell = "thread" THEN "done" ELSE "ret"

\* where task i goes after the body of iteration it[i]
AfterBody(i) == IF it[i] + 1 < args[i].nsamples THEN "x" ELSE LoopExit

\* random.seed(rank)
Seed(i) ==
    /\ pc[i] = "seed"
    /\ gen' = [gen EXCEPT ![Proc(i)] = random_seed(args[i].rank)]
    /\ seeded' = [seeded EXCEPT ![i] = args[i].rank]
    /\ it' = [it EXCEPT ![i] = 0]
    /\ pc' = [pc EXCEPT ![i] = IF 0 < args[i].nsamples THEN "x" ELSE LoopExit]
    /\ UNCHANGED <<mpivars, cell, totalSamples, nt, samples, args, mpc, k, x, tmp, lock,
                   inside, linside, worker, result, out, hits, raised>>

\* x = random.random()
DrawX(i) ==
    /\ pc[i] = "x"
    /\ gen' = [gen EXCEPT ![Proc(i)] = random_next(gen[Proc(i)])]
    /\ x' = [x EXCEPT ![i] = gen'[Proc(i)]]
    /\ pc' = [pc EXCEPT ![i] = "y"]
    /\ UNCHANGED <<mpivars, cell, totalSamples, nt, samples, args, mpc, k, it, tmp, lock,
                   inside, linside, worker, result, out, hits, seeded, raised>>

\* y = random.random(); if (x*x)+(y*y)<1: ...
\* In the pool cell the body `inside += 1` is on a local and is part of the step.
DrawY(i) ==
    /\ pc[i] = "y"
    /\ gen' = [gen EXCEPT ![Proc(i)] = random_next(gen[Proc(i)])]
    /\ x' = [x EXCEPT ![i] = 0]
    /\ IF InCircle(x[i], gen'[Proc(i)])
       THEN /\ hits' = [hits EXCEPT ![i] = @ + 1]
            /\ IF cell = "thread"
               THEN /\ pc' = [pc EXCEPT ![i] = "acq"]
                    /\ UNCHANGED <<it, linside>>
               ELSE /\ linside' = [linside EXCEPT ![i] = @ + 1]
                    /\ pc' = [pc EXCEPT ![i] = AfterBody(i)]
                    /\ it' = [it EXCEPT ![i] = @ + 1]
       ELSE /\ pc' = [pc EXCEPT ![i] = AfterBody(i)]
            /\ it' = [it EXCEPT ![i] = @ + 1]
            /\ UNCHANGED <<hits, linside>>
    /\ UNCHANGED <<mpivars, cell, totalSamples, nt, samples, args, mpc, k, tmp, lock,
                   inside, worker, result, out, seeded, raised>>

----
\* calcInside, thread version: lock.acquire(); inside += 1; lock.release()

\* CanAcquire with a lock that excludes nobody
CanAcquireUnlocked == TRUE

\* lock.acquire() returns only while nobody holds the lock
CanAcquire == lock = Free

Acquire(i) ==
    /\ pc[i] = "acq"
    /\ CanAcquire
    /\ lock' = i
    /\ pc' = [pc EXCEPT ![i] = "load"]
    /\ UNCHANGED <<mpivars, cell, totalSamples, nt, samples, args, mpc, k, it, x, tmp,
                   inside, linside, gen, worker, result, out, hits, seeded,
                   raised>>

\* inside += 1, first half: the global is loaded
Load(i) ==
    /\ pc[i] = "load"
    /\ tmp' = [tmp EXCEPT ![i] = inside]
    /\ pc' = [pc EXCEPT ![i] = "store"]
    /\ UNCHANGED <<mpivars, cell, totalSamples, nt, samples, args, mpc, k, it, x, lock,
                   inside, linside, gen, worker, result, out, hits, seeded,
                   raised>>

\* inside += 1, second half: the sum is stored to the global
Store(i) ==
    /\ pc[i] = "store"
    /\ inside' = tmp[i] + 1
    /\ tmp' = [tmp EXCEPT ![i] = 0]
    /\ pc' = [pc EXCEPT ![i] = "rel"]
    /\ UNCHANGED <<mpivars, cell, totalSamples, nt, samples, args, mpc, k, it, x, lock,
                   linside, gen, worker, result, out, hits, seeded, raised>>

\* Release with the lock.release() call missing
ReleaseKeepsLock(i) ==
    /\ pc[i] = "rel"
    /\ pc' = [pc EXCEPT ![i] = AfterBody(i)]
    /\ it' = [it EXCEPT ![i] = @ + 1]
    /\ UNCHANGED <<mpivars, cell, totalSamples, nt, samples, args, mpc, k, x, tmp, lock,
                   inside, linside, gen, worker, result, out, hits, seeded,
                   raised>>

\* lock.release(), then the next iteration
Release(i) ==
    /\ pc[i] = "rel"
    /\ lock' = Free
    /\ pc' = [pc EXCEPT ![i] = AfterBody(i)]
    /\ it' = [it EXCEPT ![i] = @ + 1]
    /\ UNCHANGED <<mpivars, cell, totalSamples, nt, samples, args, mpc, k, x, tmp,
                   inside, linside, gen, worker, result, out, hits, seeded,
                   raised>>

----
\* The pool cell: the workers of mp.Pool(processes) take the tasks of the map
\* from the task queue in order, one task (chunk) at a time per worker.

Busy(w) == \E i \in Tasks : worker[i] = w /\ pc[i] \in RunningPcs

\* NextQueued with a failed task put back in the queue
NextQueuedOrFailed(i) ==
    pc[i] \in {"new", "failed"} /\ \A j \in Tasks : j < i => pc[j] # "new"

NextQueued(i) == pc[i] = "new" /\ \A j \in Tasks : j < i => pc[j] # "new"

\* a worker takes the next task and enters calcInside: inside = 0
Pickup(w, i) ==
    /\ cell = "pool"
    /\ mpc = "map"
    /\ NextQueued(i)
    /\ ~Busy(w)
    /\ worker' = [worker EXCEPT ![i] = w]
    /\ linside' = [linside EXCEPT ![i] = 0]
    /\ pc' = [pc EXCEPT ![i] = "seed"]
    /\ UNCHANGED <<mpivars, cell, totalSamples, nt, samples, args, mpc, k, it, x, tmp,
                   lock, inside, gen, result, out, hits, seeded, raised>>

\* return (4.0*inside)/nsamples; a zero nsamples raises ZeroDivisionError,
\* which the worker sends back in place of the value
Return(i) ==
    /\ pc[i] = "ret"
    /\ IF args[i].nsamples = 0
       THEN /\ result' = [result EXCEPT ![i] = Exc]
            /\ pc' = [pc EXCEPT ![i] = "failed"]
       ELSE /\ result' = [result EXCEPT ![i] = Ratio(linside[i], args[i].nsamples)]
            /\ pc' = [pc EXCEPT ![i] = "done"]
    /\ UNCHANGED <<mpivars, cell, totalSamples, nt, samples, args, mpc, k, it, x, tmp,
                   lock, inside, linside, gen, worker, out, hits, seeded,
                   raised>>

\* pool.map returns once every task has sent a value or an exception
MapReady == \A i \in Tasks : pc[i] \in {"done", "failed"}

\* result = pool.map(...): the list in task order, or the exception re-raised
MapReturn ==
    /\ cell = "pool"
    /\ mpc = "map"
    /\ MapReady
    /\ mpc' = IF \E i \in Tasks : result[i] = Exc THEN "raised" ELSE "print"
    /\ UNCHANGED <<mpivars, cell, totalSamples, nt, samples, args, k, pc, it, x, tmp,
                   lock, inside, linside, gen, worker, result, out, hits,
                   seeded, raised>>

\* the list pool.map returned
ResultList == [j \in 1 .. nt |-> result[j - 1]]

\* print(np.mean(result))
PrintPool ==
    /\ cell = "pool"
    /\ mpc = "print"
    /\ out' = np_mean(ResultList)
    /\ mpc' = "printed"
    /\ UNCHANGED <<mpivars, cell, totalSamples, nt, samples, args, k, pc, it, x, tmp,
                   lock, inside, linside, gen, worker, result, hits, seeded,
                   raised>>

----
\* A task raises while it runs. A thread that raises ends (its join returns)
\* and keeps the lock if it held it; a pool worker sends the exception back.
Raise(i) ==
    /\ pc[i] \in RunningPcs
    /\ raised < MaxRaise
    /\ raised' = raised + 1
    /\ pc' = [pc EXCEPT ![i] = "failed"]
    /\ result' = IF cell = "pool" THEN [result EXCEPT ![i] = Exc] ELSE result
    /\ UNCHANGED <<mpivars, cell, totalSamples, nt, samples, args, mpc, k, it, x, tmp,
                   lock, inside, linside, gen, worker, out, hits, seeded>>

----
Next ==
    \/ Setup
    \/ Start
    \/ Join
    \/ PrintThread
    \/ MapReturn
    \/ PrintPool
    \/ \E i \in Tasks : Seed(i)
    \/ \E i \in Tasks : DrawX(i)
    \/ \E i \in Tasks : DrawY(i)
    \/ \E i \in Tasks : Acquire(i)
    \/ \E i \in Tasks : Load(i)
    \/ \E i \in Tasks : Store(i)
    \/ \E i \in Tasks : Release(i)
    \/ \E i \in Tasks : Return(i)
    \/ \E i \in Tasks : Raise(i)
    \/ \E w \in Tasks, i \in Tasks : Pickup(w, i)

Spec == Init /\ [][Next]_vars

\* The thread cell alone, no thread raising, under fair scheduling: the main
\* thread and every started thread keep being scheduled while they can run.
InitThread == Init /\ cell = "thread"

MainStep == Setup \/ Start \/ Join \/ PrintThread

ThreadStep(i) ==
    /\ i \in Tasks
    /\ \/ Seed(i)
       \/ DrawX(i)
       \/ DrawY(i)
       \/ Acquire(i)
       \/ Load(i)
       \/ Store(i)
       \/ Release(i)

NextThread == MainStep \/ \E i \in Tasks : ThreadStep(i)

SpecThreadFair ==
    /\ InitThread
    /\ [][NextThread]_vars
    /\ WF_vars(MainStep)
    /\ \A i \in 0 .. (MaxRunWorkers - 1) : WF_vars(ThreadStep(i))

\* Both cells with unvalidated inputs.
SpecAny == InitAny /\ [][Next]_vars

\* The partition alone, over a wider range of budgets and worker counts.
SpecPlan == InitPlan /\ [][Setup]_vars

----
\* Helpers of the properties.

\* f[0] + ... + f[n-1]
RECURSIVE SumTo(_, _)
SumTo(f, n) == IF n = 0 THEN 0 ELSE SumTo(f, n - 1) + f[n - 1]

\* the per-worker sample counts handed to the workers, in worker order
HandedCounts == [j \in 1 .. nt |-> args[j - 1].nsamples]

AllCompleted == \A i \in Tasks : TaskState(i) = "Completed"

\* calcInside run alone on a generator of its own: the hits among n samples
\* drawn from the sequence that random.seed(a) starts
RECURSIVE CountHits(_, _)
CountHits(s, n) ==
    IF n = 0 THEN 0
    ELSE LET xv == random_next(s)
             yv == random_next(xv)
         IN (IF InCircle(xv, yv) THEN 1 ELSE 0) + CountHits(yv, n - 1)

OwnSequenceHits(n, a) == CountHits(random_seed(a), n)

\* the hit counter task i counts into
Counter(i) == IF cell = "thread" THEN inside ELSE linside[i]

----
\* C1: for every totalSamples >= 1 and workerCount >= 1 the sample counts
\* handed to the workers sum to exactly totalSamples (nothing of the budget
\* is lost or duplicated, also when workerCount does not divide totalSamples).
C1_ExactCoverage ==
    mpc # "setup" => SumTo([i \in Tasks |-> args[i].nsamples], nt) = totalSamples

\* C2: every worker gets floor(totalSamples / workerCount) samples and exactly
\* the first (totalSamples mod workerCount) workers get one more; in
\* particular plan(10, 4) is [3, 3, 2, 2].
C2_RemainderPolicy ==
    mpc # "setup" =>
        /\ \A i \in Tasks :
              args[i].nsamples =
                  (totalSamples \div nt) + (IF i < totalSamples % nt THEN 1 ELSE 0)
        /\ (totalSamples = 10 /\ nt = 4) => HandedCounts = <<3, 3, 2, 2>>

\* C3: in the thread estimator, whatever the interleaving, the shared counter
\* `inside` read after all threads are joined equals the sum over the threads
\* of the samples each found inside the circle (every thread having run its
\* loop to the end): no increment is lost or counted twice.
C3_NoLostIncrement ==
    (cell = "thread" /\ mpc \in {"print", "printed", "raised"} /\ AllCompleted)
        => inside = SumTo(hits, nt)

\* C3 witness: two threads were joined and each had incremented the counter.
C3_Witness ==
    /\ cell = "thread"
    /\ mpc = "printed"
    /\ nt = 2
    /\ AllCompleted
    /\ hits[0] >= 1
    /\ hits[1] >= 1
    /\ inside = hits[0] + hits[1]

\* C4: each task owns its random sequence: the hit count of a completed task
\* is the function of its (sampleCount, seed) that a generator of its own
\* gives, whatever the other tasks do in the meantime.
C4_OwnSequence ==
    \A i \in Tasks :
        TaskState(i) = "Completed"
            => hits[i] = OwnSequenceHits(args[i].nsamples, args[i].rank)

\* C4, pool cell only: what C4 states holds of the multiprocessing estimator,
\* where every worker process has a random module of its own.
C4_PoolOwnSequence == cell = "pool" => C4_OwnSequence

\* C5: no counter is shared-mutable across concurrent tasks: while a task is
\* running, the counter it counts into changes only in steps of that task.
C5_ExclusiveCounter ==
    [][\A i \in Tasks :
          (TaskState(i) = "Running" /\ Counter(i)' # Counter(i))
              => pc'[i] # pc[i]]_vars

\* C5, pool cell only: what C5 states holds of the multiprocessing estimator.
C5_PoolExclusiveCounter ==
    [][cell = "pool" =>
          \A i \in Tasks :
              (TaskState(i) = "Running" /\ Counter(i)' # Counter(i))
                  => pc'[i] # pc[i]]_vars

\* C5 witness of the pool cell: two pool tasks run at once and one of them has
\* counted a hit into its local counter.
C5_PoolWitness ==
    /\ cell = "pool"
    /\ nt = 2
    /\ TaskState(0) = "Running"
    /\ TaskState(1) = "Running"
    /\ linside[0] >= 1

----
\* Helpers of the aggregation properties.

\* every order of the tasks: the bijections from 1 .. nt onto the tasks
Orders == {o \in [1 .. nt -> Tasks] : \A a, b \in 1 .. nt : a # b => o[a] # o[b]}

\* f[o[1]] + ... + f[o[n]]: the sum taken in the order o
RECURSIVE SumIn(_, _, _)
SumIn(f, o, n) == IF n = 0 THEN 0 ELSE SumIn(f, o, n - 1) + f[o[n]]

SampleCounts == [i \in Tasks |-> args[i].nsamples]

\* the estimate has been released
Released == mpc = "printed"

----
\* C6: the estimate is a barrier operation: it is computed and printed only
\* after every dispatched task has completed or failed; in no reachable state
\* is there an estimate while a task is pending or running.
C6_Barrier ==
    (Released \/ out # NoValue)
        => \A i \in Tasks : TaskState(i) \in {"Completed", "Failed"}

\* C6 witness: the estimate of two threads has been printed.
C6_Witness == cell = "thread" /\ nt = 2 /\ Released /\ out # NoValue /\ AllCompleted

\* C7: if a task fails to complete, the estimation does not produce an
\* estimate from the other tasks' counts: it ends in a failure outcome.
C7_PartialFailure ==
    (\E i \in Tasks : TaskState(i) = "Failed") => (~Released /\ out = NoValue)

\* C8: worker i is seeded with exactly i: the seeds are [0, 1, ..., W-1],
\* pairwise distinct, and the same in every run (they depend on the index
\* only).
C8_SeedByIndex ==
    /\ \A i \in Tasks : seeded[i] \in {Free, i}
    /\ \A i, j \in Tasks :
          (i # j /\ seeded[i] # Free /\ seeded[j] # Free) => seeded[i] # seeded[j]
    /\ (\A i \in Tasks : seeded[i] # Free)
          => [j \in 1 .. nt |-> seeded[j - 1]] = [j \in 1 .. nt |-> j - 1]

\* C8 witness: two workers have both called random.seed.
C8_Witness == nt = 2 /\ seeded[0] = 0 /\ seeded[1] = 1

C10_EstimateValue ==
    (Released /\ AllCompleted) =>
        /\ RatEq(out, <<4 * SumTo(hits, nt), SumTo(SampleCounts, nt)>>)
        /\ cell = "pool" =>
              RatEq(np_mean(ResultList), <<4 * SumTo(linside, nt), nt * samples>>)

\* C10 witness: the pool cell printed the mean of two ratios, one of them
\* with hits.
C10_Witness ==
    /\ cell = "pool"
    /\ nt = 2
    /\ Released
    /\ linside[0] + linside[1] >= 1
    /\ linside[0] # linside[1]

----
\* C11: a request with totalSamples < 1 or workerCount < 1 fails at once: the
\* error is reported before any work starts, no task is ever started for it
\* and no estimate is produced.
C11_InvalidArgument ==
    (totalSamples < 1 \/ nt < 1) =>
        /\ \A i \in Tasks : TaskState(i) = "Pending"
        /\ mpc \in {"setup", "raised"}
        /\ out = NoValue

----
\* Helpers of the counting properties.

\* task i is in the body of `if (x*x)+(y*y)<1:` of the thread version
InLockedBody(i) == pc[i] \in {"acq", "load", "store", "rel"}

\* the samples task i has drawn so far: the iterations it finished, and the
\* one it is in once both coordinates are drawn
Drawn(i) == it[i] + (IF InLockedBody(i) THEN 1 ELSE 0)

\* thread i is between lock.acquire() and lock.release()
HoldsLock(i) == pc[i] \in {"load", "store", "rel"}

\* C12: in every reachable state each task's hit count is non-negative and at
\* most the samples the task has drawn so far, so a completed task has
\* 0 <= hitCount <= sampleCount, the aggregated hits never exceed the total
\* number of samples and the estimate never exceeds 4.
C12_HitBounds ==
    /\ \A i \in Tasks :
          /\ 0 <= hits[i] /\ hits[i] <= args[i].nsamples
          /\ 0 <= linside[i] /\ linside[i] <= hits[i]
          /\ TaskState(i) # "Failed" =>
                (hits[i] <= Drawn(i) /\ Drawn(i) <= args[i].nsamples)
          /\ (cell = "pool" /\ TaskState(i) = "Completed") =>
                result[i] = <<4 * hits[i], args[i].nsamples>>
    /\ 0 <= inside /\ inside <= SumTo(hits, nt)
    /\ SumTo(hits, nt) <= SumTo(SampleCounts, nt)
    /\ out # NoValue => (0 <= out[1] /\ out[1] <= 4 * out[2])

\* C12 witness: a thread completed with some but not all of its samples
\* inside the circle, and the estimate was printed.
C12_Witness ==
    /\ cell = "thread"
    /\ Released
    /\ \E i \in Tasks :
          TaskState(i) = "Completed" /\ 0 < hits[i] /\ hits[i] < args[i].nsamples

\* C13: every task goes Pending -> Running -> Completed or
\* Pending -> Running -> Failed: it is started at most once, never leaves
\* Completed or Failed and is never run again.
C13_TaskLifecycle ==
    [][\A i \in Tasks :
          /\ TaskState(i)' # TaskState(i) =>
                <<TaskState(i), TaskState(i)'>> \in
                    {<<"Pending", "Running">>, <<"Running", "Completed">>,
                     <<"Running", "Failed">>}
          /\ (pc'[i] = "seed" /\ pc[i] # "seed") => pc[i] = "new"]_vars

\* C13 witness: of two tasks one completed and the other failed.
C13_Witness ==
    /\ nt = 2
    /\ TaskState(0) = "Completed"
    /\ TaskState(1) = "Failed"

\* at most one thread is between acquire and release, and it is the holder
MutualExclusion ==
    /\ Cardinality({i \in Tasks : HoldsLock(i)}) <= 1
    /\ \A i \in Tasks : HoldsLock(i) => lock = i

\* C14: in the thread estimator at most one thread at a time is between
\* lock.acquire() and lock.release(), and `inside` is modified only by the
\* thread that holds the lock, each modification adding exactly 1.
C14_LockedIncrement ==
    [][cell = "thread" =>
          /\ MutualExclusion
          /\ MutualExclusion'
          /\ inside' # inside =>
                /\ inside' = inside + 1
                /\ \E i \in Tasks :
                      lock = i /\ pc[i] = "store" /\ pc'[i] = "rel"]_vars

\* C14 witness: one thread is about to store `inside` under the lock while
\* the other waits in lock.acquire().
C14_Witness ==
    /\ cell = "thread"
    /\ nt = 2
    /\ pc[1] = "store"
    /\ lock = 1
    /\ pc[0] = "acq"

----
\* the thread cell has ended: every thread ran all its iterations, the lock
\* is free and the main thread is past its print statement
ThreadCellEnded ==
    /\ mpc \in {"printed", "raised"}
    /\ lock = Free
    /\ \A i \in Tasks : pc[i] = "done" /\ (0 < args[i].nsamples => it[i] = args[i].nsamples)

\* C15: the thread estimator is deadlock free and terminates: under fair
\* scheduling every thread that acquires the lock releases it, every thread
\* waiting for the lock gets it, all nt threads finish their nsamples
\* iterations, every join returns and the main thread prints the estimate
\* (whenever every thread has at least one sample, so that the divisor of
\* the printed ratio is not zero).
C15_Terminates ==
    /\ \A i \in 0 .. (MaxRunWorkers - 1) :
          /\ (i \in Tasks /\ lock = i) ~> (lock # i)
          /\ (i \in Tasks /\ pc[i] = "acq") ~> (lock = i)
    /\ <>ThreadCellEnded
    /\ (totalSamples >= nt) => <>(mpc = "printed" /\ out # NoValue)

\* C15 witness: two threads both went through the locked increment and the
\* estimate was printed.
C15_Witness ==
    /\ nt = 2
    /\ ThreadCellEnded
    /\ mpc = "printed"
    /\ hits[0] >= 1
    /\ hits[1] >= 1

----
\* The MPI cells: pt2pt, pt2pt_numpy and gather, each run by `size` ranks.

\* largest communicator explored
MaxSize == 4

\* the estimator state, which no MPI cell touches
estvars == <<cell, totalSamples, nt, samples, args, mpc, k, pc, it, x, tmp,
             lock, inside, linside, gen, worker, result, out, hits, seeded,
             raised>>

\* no estimator cell runs
EstIdle ==
    /\ totalSamples = 0
    /\ nt = 0
    /\ samples = 0
    /\ args = <<>>
    /\ mpc = "idle"
    /\ k = 0
    /\ pc = <<>>
    /\ it = <<>>
    /\ x = <<>>
    /\ tmp = <<>>
    /\ lock = Free
    /\ inside = 0
    /\ linside = <<>>
    /\ gen = <<>>
    /\ worker = <<>>
    /\ result = <<>>
    /\ out = NoValue
    /\ hits = <<>>
    /\ seeded = <<>>
    /\ raised = 0

MpiCells == {"pt2pt", "pt2pt_numpy", "gather"}

Ranks == 0 .. (size - 1)

\* the arguments dest=1, source=0 and root=0 of the cells
Dest == 1
Source == 0
Root == 0

\* numData = 10 and numDataPerRank = 10
NumData == 10
numDataPerRank == 10

\* Python objects: an int, a float (in hundredths), a str, a dict with its
\* keys in insertion order
PyInt(n) == <<"int", n>>
PyFloat(h) == <<"float", h>>
PyDict(keys, vals) == <<"dict", keys, vals>>

\* {'a': 7, 'b': 3.14}
TheDict == PyDict(<<"a", "b">>, <<PyInt(7), PyFloat(314)>>)

\* pickle: the object as a stream of opcodes for the unpickling machine
PickleScalar(o) == IF o[1] = "int" THEN <<"BININT", o[2]>> ELSE <<"BINFLOAT", o[2]>>

RECURSIVE PickleItems(_, _, _)
PickleItems(keys, vals, n) ==
    IF n = 0 THEN <<>>
    ELSE PickleItems(keys, vals, n - 1)
           \o <<<<"BINUNICODE", keys[n]>>, PickleScalar(vals[n]), <<"SETITEM">>>>

Pickle(o) ==
    (IF o[1] = "dict"
     THEN <<<<"EMPTY_DICT">>>> \o PickleItems(o[2], o[3], Len(o[2]))
     ELSE <<PickleScalar(o)>>) \o <<<<"STOP">>>>

\* unpickle: run the opcodes on a stack, the result is the top at STOP
RECURSIVE PickleRun(_, _, _)
PickleRun(tokens, i, stack) ==
    LET tok == tokens[i]
        top == Len(stack)
    IN  IF tok[1] = "STOP" THEN stack[top]
        ELSE IF tok[1] = "EMPTY_DICT"
             THEN PickleRun(tokens, i + 1, Append(stack, <<"dict", <<>>, <<>>>>))
        ELSE IF tok[1] = "BININT"
             THEN PickleRun(tokens, i + 1, Append(stack, <<"int", tok[2]>>))
        ELSE IF tok[1] = "BINFLOAT"
             THEN PickleRun(tokens, i + 1, Append(stack, <<"float", tok[2]>>))
        ELSE IF tok[1] = "BINUNICODE"
             THEN PickleRun(tokens, i + 1, Append(stack, <<"str", tok[2]>>))
        ELSE \* SETITEM: dict[key] = value with dict, key, value on the stack
             LET d == stack[top - 2]
                 key == stack[top - 1]
                 val == stack[top]
             IN  PickleRun(tokens, i + 1,
                           Append(SubSeq(stack, 1, top - 3),
                                  <<"dict", Append(d[2], key[2]), Append(d[3], val)>>))

Unpickle(tokens) == PickleRun(tokens, 1, <<>>)

\* np.linspace(a, b, n) for rationals a and b: n evenly spaced values from a
\* to b, both included
Linspace(a, b, n) ==
    [j \in 1 .. n |->
        IF n = 1 THEN a
        ELSE RatAdd(a, <<(j - 1) * ((b[1] * a[2]) - (a[1] * b[2])),
                         a[2] * b[2] * (n - 1)>>)]

\* what np.empty may hold: whatever was in the memory
Garbage == {<<0, 1>>, <<0 - 7, 1>>}

\* np.empty(n, dtype='d')
np_empty(n, g) == [j \in 1 .. n |-> g]

\* a message in flight
Msg(src, dst, kind, body) == [src |-> src, dst |-> dst, kind |-> kind, body |-> body]

\* MPI rejects a rank outside the communicator; the mutant accepts any
ValidRankAny(d) == TRUE

ValidRank(d) == d \in Ranks

\* the messages of chan a receive of rank r from source s can match
Matching(r, s) == {j \in 1 .. Len(chan) : chan[j].dst = r /\ chan[j].src = s}

\* the mutant matches the newest of them
MatchNewest(r, s) == CHOOSE j \in Matching(r, s) : \A j2 \in Matching(r, s) : j2 <= j

\* messages between two ranks do not overtake: a receive matches the oldest
MatchIndex(r, s) == CHOOSE j \in Matching(r, s) : \A j2 \in Matching(r, s) : j <= j2

\* chan without its j-th message
Without(j) == SubSeq(chan, 1, j - 1) \o SubSeq(chan, j + 1, Len(chan))

\* the mutant send returns only if the message was buffered
SendReturnsIfBuffered(r) == eager

\* the blocking send of rank r may return: the message was buffered (eager)
\* or was received
SendMayReturn(r) == eager \/ \A j \in 1 .. Len(chan) : chan[j].src # r

InitMPI ==
    /\ cell \in MpiCells
    /\ EstIdle
    /\ size \in 1 .. MaxSize
    /\ eager \in BOOLEAN
    /\ rpc = [r \in Ranks |-> "start"]
    /\ data = [r \in Ranks |-> NoValue]
    /\ numData = [r \in Ranks |-> NoValue]
    /\ sendbuf = [r \in Ranks |-> NoValue]
    /\ recvbuf = [r \in Ranks |-> NoValue]
    /\ chan = <<>>
    /\ arrived = <<>>
    /\ nsent = [r \in Ranks |-> 0]
    /\ nrecv = [r \in Ranks |-> 0]

\* a blocking send of rank r to rank d: an invalid rank raises and sends
\* nothing, otherwise the message is in flight and r waits in `waitpc`
Post(r, d, kind, body, waitpc) ==
    IF ValidRank(d)
    THEN /\ chan' = Append(chan, Msg(r, d, kind, body))
         /\ nsent' = [nsent EXCEPT ![r] = @ + 1]
         /\ rpc' = [rpc EXCEPT ![r] = waitpc]
    ELSE /\ rpc' = [rpc EXCEPT ![r] = "error"]
         /\ UNCHANGED <<chan, nsent>>

\* the block copied into the buffer behind its first `off` elements
Place(buf, block, off) ==
    [j \in 1 .. Len(buf) |->
        IF off < j /\ j <= off + Len(block) THEN block[j - off] ELSE buf[j]]

\* the mutant places the c-th block to arrive behind c blocks
GatherOffsetArrival(r, c) == c * numDataPerRank

\* Gather places the block of rank r behind r blocks
GatherOffset(r, c) == r * numDataPerRank

\* rank = comm.Get_rank() and the branch on it
RankStart(r) ==
    /\ cell \in MpiCells
    /\ rpc[r] = "start"
    /\ rpc' = [rpc EXCEPT ![r] =
                 IF cell = "gather" THEN "linspace"
                 ELSE IF r = 0 THEN (IF cell = "pt2pt" THEN "send" ELSE "send1")
                 ELSE IF r = 1 THEN (IF cell = "pt2pt" THEN "recv" ELSE "recv1")
                 ELSE "done"]
    /\ UNCHANGED <<estvars, size, eager, data, numData, sendbuf, recvbuf, chan,
                   arrived, nsent, nrecv>>

\* pt2pt, rank 0: data = {'a': 7, 'b': 3.14}; comm.send(data, dest=1)
SendDict(r) ==
    /\ rpc[r] = "send"
    /\ data' = [data EXCEPT ![r] = TheDict]
    /\ Post(r, Dest, "pickle", Pickle(data'[r]), "sending")
    /\ UNCHANGED <<estvars, size, eager, numData, sendbuf, recvbuf, arrived, nrecv>>

\* a blocking send or the non-root side of Gather returns
SendReturn(r) ==
    /\ rpc[r] \in {"sending", "sending1", "sending2"}
    /\ SendMayReturn(r)
    /\ rpc' = [rpc EXCEPT ![r] = IF rpc[r] = "sending1" THEN "send2" ELSE "done"]
    /\ UNCHANGED <<estvars, size, eager, data, numData, sendbuf, recvbuf, chan,
                   arrived, nsent, nrecv>>

\* pt2pt, rank 1: data = comm.recv(source=0); print
RecvDict(r) ==
    /\ rpc[r] = "recv"
    /\ Matching(r, Source) # {}
    /\ LET j == MatchIndex(r, Source)
           m == chan[j]
       IN  /\ IF m.kind = "pickle"
              THEN /\ data' = [data EXCEPT ![r] = Unpickle(m.body)]
                   /\ rpc' = [rpc EXCEPT ![r] = "done"]
              ELSE /\ rpc' = [rpc EXCEPT ![r] = "error"]
                   /\ UNCHANGED data
           /\ chan' = Without(j)
    /\ nrecv' = [nrecv EXCEPT ![r] = @ + 1]
    /\ UNCHANGED <<estvars, size, eager, numData, sendbuf, recvbuf, arrived, nsent>>

\* pt2pt_numpy, rank 0: numData = 10; comm.send(numData, dest=1)
SendNumData(r) ==
    /\ rpc[r] = "send1"
    /\ numData' = [numData EXCEPT ![r] = PyInt(NumData)]
    /\ Post(r, Dest, "pickle", Pickle(numData'[r]), "sending1")
    /\ UNCHANGED <<estvars, size, eager, data, sendbuf, recvbuf, arrived, nrecv>>

\* pt2pt_numpy, rank 0: data = np.linspace(0.0, 3.14, numData);
\* comm.Send(data, dest=1)
SendArray(r) ==
    /\ rpc[r] = "send2"
    /\ data' = [data EXCEPT ![r] = Linspace(<<0, 1>>, <<314, 100>>, numData[r][2])]
    /\ Post(r, Dest, "buffer", data'[r], "sending2")
    /\ UNCHANGED <<estvars, size, eager, numData, sendbuf, recvbuf, arrived, nrecv>>

\* pt2pt_numpy, rank 1: numData = comm.recv(source=0); print
RecvNumData(r) ==
    /\ rpc[r] = "recv1"
    /\ Matching(r, Source) # {}
    /\ LET j == MatchIndex(r, Source)
           m == chan[j]
       IN  /\ IF m.kind = "pickle"
              THEN /\ numData' = [numData EXCEPT ![r] = Unpickle(m.body)]
                   /\ rpc' = [rpc EXCEPT ![r] = "alloc"]
              ELSE /\ rpc' = [rpc EXCEPT ![r] = "error"]
                   /\ UNCHANGED numData
           /\ chan' = Without(j)
    /\ nrecv' = [nrecv EXCEPT ![r] = @ + 1]
    /\ UNCHANGED <<estvars, size, eager, data, sendbuf, recvbuf, arrived, nsent>>

\* pt2pt_numpy, rank 1: data = np.empty(numData, dtype='d')
AllocArray(r) ==
    /\ rpc[r] = "alloc"
    /\ \E g \in Garbage : data' = [data EXCEPT ![r] = np_empty(numData[r][2], g)]
    /\ rpc' = [rpc EXCEPT ![r] = "recv2"]
    /\ UNCHANGED <<estvars, size, eager, numData, sendbuf, recvbuf, chan, arrived,
                   nsent, nrecv>>

\* pt2pt_numpy, rank 1: comm.Recv(data, source=0); print.  The message is
\* copied into the buffer; one that is no array or is longer than the
\* buffer is an error.
RecvArray(r) ==
    /\ rpc[r] = "recv2"
    /\ Matching(r, Source) # {}
    /\ LET j == MatchIndex(r, Source)
           m == chan[j]
       IN  /\ IF m.kind = "buffer" /\ Len(m.body) <= Len(data[r])
              THEN /\ data' = [data EXCEPT ![r] = Place(data[r], m.body, 0)]
                   /\ rpc' = [rpc EXCEPT ![r] = "done"]
              ELSE /\ rpc' = [rpc EXCEPT ![r] = "error"]
                   /\ UNCHANGED data
           /\ chan' = Without(j)
    /\ nrecv' = [nrecv EXCEPT ![r] = @ + 1]
    /\ UNCHANGED <<estvars, size, eager, numData, sendbuf, recvbuf, arrived, nsent>>

\* gather, every rank: sendbuf = np.linspace(...); print; recvbuf = None;
\* on rank 0 recvbuf = np.empty(numDataPerRank*size, dtype='d')
GatherPrepare(r) ==
    /\ rpc[r] = "linspace"
    /\ sendbuf' = [sendbuf EXCEPT ![r] =
                     Linspace(<<(r * numDataPerRank) + 1, 1>>,
                              <<(r + 1) * numDataPerRank, 1>>, numDataPerRank)]
    /\ \E g \in Garbage :
          recvbuf' = [recvbuf EXCEPT ![r] =
                        IF r = 0 THEN np_empty(numDataPerRank * size, g) ELSE NoValue]
    /\ rpc' = [rpc EXCEPT ![r] = "gather"]
    /\ UNCHANGED <<estvars, size, eager, data, numData, chan, arrived, nsent, nrecv>>

\* comm.Gather(sendbuf, recvbuf, root=0) on a rank that is not the root: its
\* block goes to the root
GatherSend(r) ==
    /\ rpc[r] = "gather"
    /\ r # Root
    /\ Post(r, Root, "buffer", sendbuf[r], "sending")
    /\ UNCHANGED <<estvars, size, eager, data, numData, sendbuf, recvbuf, arrived,
                   nrecv>>

\* comm.Gather on the root: its own block is copied
GatherOwn(r) ==
    /\ rpc[r] = "gather"
    /\ r = Root
    /\ recvbuf' = [recvbuf EXCEPT ![r] = Place(recvbuf[r], sendbuf[r], GatherOffset(r, 0))]
    /\ rpc' = [rpc EXCEPT ![r] = "collect"]
    /\ UNCHANGED <<estvars, size, eager, data, numData, sendbuf, chan, arrived,
                   nsent, nrecv>>

\* comm.Gather on the root: a block of another rank arrives, in any order
GatherPlace(r) ==
    /\ rpc[r] = "collect"
    /\ \E j \in 1 .. Len(chan) :
          /\ chan[j].dst = r
          /\ recvbuf' = [recvbuf EXCEPT ![r] =
                           Place(recvbuf[r], chan[j].body,
                                 GatherOffset(chan[j].src, Len(arrived) + 1))]
          /\ arrived' = Append(arrived, chan[j].src)
          /\ chan' = Without(j)
    /\ nrecv' = [nrecv EXCEPT ![r] = @ + 1]
    /\ UNCHANGED <<estvars, size, eager, rpc, data, numData, sendbuf, nsent>>

\* comm.Gather on the root returns when every block is placed; print
GatherReturn(r) ==
    /\ rpc[r] = "collect"
    /\ {arrived[j] : j \in 1 .. Len(arrived)} = Ranks \ {r}
    /\ rpc' = [rpc EXCEPT ![r] = "done"]
    /\ UNCHANGED <<estvars, size, eager, data, numData, sendbuf, recvbuf, chan,
                   arrived, nsent, nrecv>>

RankStep(r) ==
    /\ r \in Ranks
    /\ \/ RankStart(r)
       \/ SendDict(r)
       \/ SendReturn(r)
       \/ RecvDict(r)
       \/ SendNumData(r)
       \/ SendArray(r)
       \/ RecvNumData(r)
       \/ AllocArray(r)
       \/ RecvArray(r)
       \/ GatherPrepare(r)
       \/ GatherSend(r)
       \/ GatherOwn(r)
       \/ GatherPlace(r)
       \/ GatherReturn(r)

NextMPI == \E r \in Ranks : RankStep(r)

SpecMPI == InitMPI /\ [][NextMPI]_vars

\* every rank is a process of its own that runs whenever it can
SpecMPIFair ==
    /\ InitMPI
    /\ [][NextMPI]_vars
    /\ \A r \in 0 .. (MaxSize - 1) : WF_vars(RankStep(r))

\* rank r has ended, normally or with an exception
Ended(r) == rpc[r] \in {"done", "error"}

----
\* C16: in the gather cell on any number of ranks, once Gather has returned
\* on the root, the root's recvbuf holds the numDataPerRank values of rank r
\* at positions r*numDataPerRank .. (r+1)*numDataPerRank-1, that is the
\* values 1 .. size*numDataPerRank in rank order, in whatever order the
\* blocks arrived; recvbuf of every other rank stays None.
C16_GatherByRank ==
    (cell = "gather") =>
        /\ \A r \in Ranks \ {Root} : recvbuf[r] = NoValue
        /\ (rpc[Root] = "done") =>
              /\ Len(recvbuf[Root]) = size * numDataPerRank
              /\ \A r \in Ranks : \A q \in 1 .. numDataPerRank :
                    recvbuf[Root][(r * numDataPerRank) + q] = sendbuf[r][q]
              /\ \A j \in 1 .. (size * numDataPerRank) :
                    RatEq(recvbuf[Root][j], <<j, 1>>)

\* C16 witness: four ranks, the block of rank 3 arrived first, Gather has
\* returned on the root.
C16_Witness ==
    /\ cell = "gather"
    /\ size = 4
    /\ arrived = <<3, 1, 2>>
    /\ rpc[Root] = "done"
    /\ recvbuf[1] = NoValue
    /\ RatEq(recvbuf[Root][4 * numDataPerRank], <<4 * numDataPerRank, 1>>)

\* C17: in the pt2pt_numpy cell with at least two ranks the two messages of
\* rank 0 to rank 1 are received in the order sent: the first receive yields
\* numData, never the array, the buffer then allocated has exactly the
\* length of the array, and the second receive yields the array unchanged.
C17_OrderedPair ==
    (cell = "pt2pt_numpy" /\ size >= 2) =>
        /\ rpc[1] # "error"
        /\ (rpc[1] \in {"alloc", "recv2", "done"}) =>
              /\ numData[1] = PyInt(NumData)
              /\ numData[1] = numData[0]
        /\ (rpc[1] \in {"recv2", "done"}) =>
              /\ Len(data[1]) = NumData
              /\ (rpc[0] \in {"sending2", "done"}) => Len(data[1]) = Len(data[0])
        /\ (rpc[1] = "done") =>
              /\ data[1] = data[0]
              /\ data[1] = Linspace(<<0, 1>>, <<314, 100>>, NumData)

\* C17 witness: both sends returned before rank 1 received anything (the
\* sends were buffered), and rank 1 has received both messages.
C17_Witness ==
    /\ cell = "pt2pt_numpy"
    /\ size >= 2
    /\ eager
    /\ rpc[1] = "done"
    /\ nrecv[1] = 2
    /\ numData[1] = PyInt(NumData)
    /\ data[1] = data[0]

\* C18: in the pt2pt cell with at least two ranks the recv of rank 1 returns
\* exactly the object rank 0 sent, the send and the recv both complete,
\* every rank other than 0 and 1 neither sends nor receives, and all ranks
\* terminate.
C18_Delivered ==
    /\ []((cell = "pt2pt" /\ size >= 2) =>
             /\ \A r \in Ranks : rpc[r] # "error"
             /\ (rpc[1] = "done") => (data[1] = TheDict /\ data[1] = data[0])
             /\ \A r \in Ranks \ {0, 1} : nsent[r] = 0 /\ nrecv[r] = 0)
    /\ (cell = "pt2pt" /\ size >= 2)
          ~> (/\ \A r \in Ranks : rpc[r] = "done"
              /\ nsent[0] = 1
              /\ nrecv[1] = 1
              /\ chan = <<>>)

\* C18 witness: four ranks, the send waited for the recv, the object has
\* arrived and every rank has ended.
C18_Witness ==
    /\ cell = "pt2pt"
    /\ size = 4
    /\ ~eager
    /\ \A r \in Ranks : rpc[r] = "done"
    /\ data[1] = TheDict
    /\ nrecv[1] = 1

\* C19: in pt2pt and pt2pt_numpy run by a single rank, the send of rank 0 to
\* dest=1 ends in the 'Invalid rank' error instead of blocking; a send to a
\* destination outside 0 .. size-1 is rejected and no message is delivered.
C19_InvalidRank ==
    /\ [](\A j \in 1 .. Len(chan) : chan[j].dst \in Ranks)
    /\ []((cell \in {"pt2pt", "pt2pt_numpy"} /\ size = 1) =>
             /\ rpc[0] \in {"start", "send", "send1", "error"}
             /\ chan = <<>>
             /\ nsent[0] = 0
             /\ nrecv[0] = 0)
    /\ (cell \in {"pt2pt", "pt2pt_numpy"} /\ size = 1) ~> (rpc[0] = "error")

\* C19 witness: a single rank ran pt2pt_numpy, its first send raised and
\* nothing was sent.
C19_Witness ==
    /\ cell = "pt2pt_numpy"
    /\ size = 1
    /\ rpc[0] = "error"
    /\ numData[0] = PyInt(NumData)
    /\ chan = <<>>
    /\ nsent[0] = 0

====
